---- MODULE Spec2Model ----
(***************************************************************************)
(* Storage core of the database (db/src/db.rs): the pager (create, open,   *)
(* allocate_page, deallocate_page), the catalog (create_table, drop_table, *)
(* create_index, drop_index) and the slotted heap (allocate_data_slot,     *)
(* deallocate_data_slot), as operators over a record `db` that holds the   *)
(* Db object together with the pages of the memory-mapped file.            *)
(***************************************************************************)
EXTENDS Integers, Sequences, FiniteSets, TLC

VARIABLES
  db,     \* the Db object and the mapped file: see InitDb
  op,     \* name of the last public operation called
  arg,    \* its argument; for allocate_data_slot [meta, rid]: the table-meta
          \* page it was called on and the Rid it returned
  ret,    \* its result: "Ok", an error kind, or the value it returned
  live,   \* pager runs: the pages handed out by allocate_page and not given back
  freed,  \* pager runs: the pages given back and not handed out again, in that order
  refs,   \* <<child, parent>>: live table child declared a foreign key on parent
  rows,   \* [meta, rid]: the Rids allocate_data_slot returned and still live
  maxPages, \* the run's cap on the pages counter (never changes)
  steps   \* foreign-key runs: the number of calls made so far

vars == <<db, op, arg, ret, live, freed, refs, rows, maxPages, steps>>

\* ------------------------------------------------------------ bounds
\* the pages counter is capped: an operation that would extend the file
\* beyond the run's cap is not taken
MaxPages == 4
MaxLinkPages == 6
\* a foreign-key run makes at most MaxLinkSteps calls
MaxLinkSteps == 8

\* ------------------------------------------------- constants (physics)
\* The limits MAX_TABLE .. MIN_SLOT_SIZE are taken small, so that every limit
\* is met by a statement of a few columns; PAGE_SIZE is 8 KiB.
\* sentinel "none": !0 as u8 is 255; !0 as u32 is all 32 bits set, which is
\* written -1 here (the same bits read as a signed 32-bit integer)
None32 == -1
None8 == 255
PAGE_SIZE == 8192
MAX_TABLE == 4
MAX_COL == 3
MAX_TABLE_NAME == 4
MAX_COL_NAME == 4
MAX_DATA_BYTE == 16
MIN_SLOT_SIZE == 8

MAGIC == "MAGIC"
ZeroMagic == "zeros"
OtherMagic == "other"

\* ------------------------------------------------------ page contents
PRIMARY == "PRIMARY"
NOTNULL == "NOTNULL"
UNIQUE == "UNIQUE"

\* a ColInfo of zero bytes
ZeroCol ==
  [ name |-> "", ty |-> [ty |-> "Int", size |-> 0], off |-> 0, flags |-> {},
    index |-> 0, foreign_table |-> 0, foreign_col |-> 0 ]

\* A page of zero bytes, which is what extending the file yields.  prev and
\* next are words 0 and 1 of the page for a table-meta page and for a data
\* page alike; word 0 is also the link of the free-page list.  The other
\* fields of the three page kinds are kept side by side: each kind's init
\* rewrites its own header before it is read, and only the bytes that no init
\* writes (a ColInfo's flags) are read as they were left.
ZeroPage ==
  [ prev |-> 0, next |-> 0,
    first_free |-> 0, size |-> 0, cap |-> 0, col_num |-> 0,
    cols |-> [i \in 0 .. (MAX_COL - 1) |-> ZeroCol],
    next_free |-> 0, count |-> 0, used |-> {},
    leaf |-> FALSE, key_size |-> 0, icount |-> 0, ch |-> <<>>, keys |-> <<>> ]

ZeroTableInfo == [meta |-> 0, name |-> ""]

\* DbPage::init on a one-page file, and Db { pages: 1, .. }
InitDb ==
  [ isOpen |-> TRUE, fileLen |-> PAGE_SIZE, magic |-> MAGIC, pages |-> 1,
    first_free |-> None32, table_num |-> 0,
    tables |-> [i \in 0 .. (MAX_TABLE - 1) |-> ZeroTableInfo],
    mem |-> <<>>,       \* the pages 1 .. pages - 1 of the file
    pushed |-> <<>> ]   \* the pages deallocate_page was called on, in order

\* allocate_page that hands out the page past the end without set_len
allocate_page_NoSetLen(d) ==
  IF d.first_free # None32
  THEN [ d |-> [d EXCEPT !.first_free = d.mem[d.first_free].prev],
         id |-> d.first_free ]
  ELSE [ d |-> [d EXCEPT !.pages = d.pages + 1,
                         !.mem = Append(d.mem, ZeroPage)],
         id |-> d.pages ]

\* allocate_page that drops the rest of the free-page list when it pops
allocate_page_DropRest(d) ==
  IF d.first_free # None32
  THEN [ d |-> [d EXCEPT !.first_free = None32], id |-> d.first_free ]
  ELSE [ d |-> [d EXCEPT !.fileLen = (d.pages + 1) * PAGE_SIZE,
                         !.pages = d.pages + 1,
                         !.mem = Append(d.mem, ZeroPage)],
         id |-> d.pages ]

\* ------------------------------------------------------------- pager
\* allocate_page: [d |-> the database afterwards, id |-> the page handed out]
allocate_page(d) ==
  IF d.first_free # None32
  THEN [ d  |-> [d EXCEPT !.first_free = d.mem[d.first_free].prev],
         id |-> d.first_free ]
  ELSE [ d  |-> [d EXCEPT !.fileLen = (d.pages + 1) * PAGE_SIZE,
                          !.pages = d.pages + 1,
                          !.mem = Append(d.mem, ZeroPage)],
         id |-> d.pages ]

deallocate_page(d, page) ==
  [d EXCEPT !.mem[page].prev = d.first_free, !.first_free = page,
            !.pushed = Append(d.pushed, page)]

\* the free-page list as the sequence of pages met from `from`, at most n steps
RECURSIVE FreeChain(_, _, _)
FreeChain(d, from, n) ==
  IF from = None32 \/ n = 0 \/ from \notin DOMAIN d.mem THEN <<>>
  ELSE <<from>> \o FreeChain(d, d.mem[from].prev, n - 1)

FreeList(d) == FreeChain(d, d.first_free, d.pages)

\* ------------------------------------------------------------ types
NumTys == {"Int", "Bool", "Float", "Date"}
StrTys == {"Char", "VarChar"}

\* ColTy::size: the bytes a column takes in a record
ty_size(t) ==
  CASE t.ty \in {"Int", "Float", "Date"} -> 4
    [] t.ty = "Bool" -> 1
    [] t.ty = "Char" -> t.size
    [] t.ty = "VarChar" -> 4 + t.size

\* ColTy::align4: the column is laid out at a multiple of 4
align4(t) == t.ty \in {"Int", "Float", "Date", "VarChar"}

U16(n) == n % 65536
\* (size + 3) & !3 on a u16
RoundUp4(n) == U16(n + 3) - (U16(n + 3) % 4)
\* (c.cols.len() as u16 + 31) / 32 * 4
NullBitset(n) == ((n + 31) \div 32) * 4

\* ------------------------------------------------------------ lookups
Min(S) == CHOOSE x \in S : \A y \in S : x <= y

\* DbPage::names with the position of the first match, as get_ti uses it
get_ti(d, table) ==
  LET hit == {i \in 0 .. (d.table_num - 1) : d.tables[i].name = table}
  IN IF hit = {} THEN [err |-> "NoSuchTable", idx |-> 0]
     ELSE [err |-> "Ok", idx |-> Min(hit)]

\* TablePage::get_ci: the first live column of that name
tp_get_ci(tp, col) ==
  LET hit == {j \in 0 .. (tp.col_num - 1) : tp.cols[j].name = col}
  IN IF hit = {} THEN [err |-> "NoSuchCol", idx |-> 0]
     ELSE [err |-> "Ok", idx |-> Min(hit)]

\* Db::get_ci: [err, meta: the table-meta page, idx: the column's position]
get_ci(d, table, col) ==
  LET ti == get_ti(d, table)
  IN IF ti.err # "Ok" THEN [err |-> ti.err, meta |-> 0, idx |-> 0]
     ELSE LET meta == d.tables[ti.idx].meta
              ci == tp_get_ci(d.mem[meta], col)
          IN [err |-> ci.err, meta |-> meta, idx |-> ci.idx]

\* ------------------------------------------------------- create_table
\* A CreateTable statement c is [name, cols, cons]; a column declaration is
\* [name, ty, notnull]; a constraint is [name, kind, table, col] with kind
\* "Primary" or "Foreign" (table and col are read for "Foreign" only).

\* cols.get_full(name): the position of the column of that name, or -1
ColIdx(c, name) ==
  LET hit == {i \in 1 .. Len(c.cols) : c.cols[i].name = name}
  IN IF hit = {} THEN -1 ELSE Min(hit) - 1

\* the loop over c.cols that fills the name set, from column i on
RECURSIVE ColsErr(_, _)
ColsErr(c, i) ==
  IF i > Len(c.cols) THEN "Ok"
  ELSE IF \E k \in 1 .. (i - 1) : c.cols[k].name = c.cols[i].name THEN "DupCol"
  ELSE IF Len(c.cols[i].name) >= MAX_COL_NAME THEN "ColNameTooLong"
  ELSE ColsErr(c, i + 1)

\* the match with a single arm for all of Int, Bool, Float and Date
ForeignTyOk_AnyNumeric(f_ty, ty) ==
  \/ f_ty.ty \in StrTys /\ ty.ty \in StrTys /\ ty.size >= f_ty.size
  \/ f_ty.ty \in NumTys /\ ty.ty \in NumTys

\* the match on (f_ty.ty, ty.ty): f_ty is the referenced column's type
ForeignTyOk(f_ty, ty) ==
  \/ f_ty.ty \in StrTys /\ ty.ty \in StrTys /\ ty.size >= f_ty.size
  \/ f_ty.ty = ty.ty /\ ty.ty \in NumTys

\* one constraint of the validation loop
ConsErrOne(d, c, cons) ==
  IF ColIdx(c, cons.name) < 0 THEN "NoSuchCol"
  ELSE IF cons.kind = "Primary" THEN "Ok"
  ELSE LET r == get_ci(d, cons.table, cons.col)
       IN IF r.err # "Ok" THEN r.err
          ELSE LET ci == d.mem[r.meta].cols[r.idx]
               IN IF UNIQUE \notin ci.flags THEN "ForeignKeyOnNonUnique"
                  ELSE IF ~ForeignTyOk(ci.ty, c.cols[ColIdx(c, cons.name) + 1].ty)
                  THEN "IncompatibleForeignTy"
                  ELSE "Ok"

\* the loop over c.cons, from constraint k on
RECURSIVE ConsErr(_, _, _)
ConsErr(d, c, k) ==
  IF k > Len(c.cons) THEN "Ok"
  ELSE IF ConsErrOne(d, c, c.cons[k]) # "Ok" THEN ConsErrOne(d, c, c.cons[k])
  ELSE ConsErr(d, c, k + 1)

primary_cnt(c) == Cardinality({k \in 1 .. Len(c.cons) : c.cons[k].kind = "Primary"})

\* the size validation loop from column i on: the size reached, or -1 once
\* a step exceeds MAX_DATA_BYTE
RECURSIVE ValidSizeFrom(_, _, _)
ValidSizeFrom(cols, i, size) ==
  IF i > Len(cols) THEN size
  ELSE LET s2 == U16(size + ty_size(cols[i].ty))
       IN IF s2 > MAX_DATA_BYTE THEN -1 ELSE ValidSizeFrom(cols, i + 1, s2)

\* the size the validation checks last (after the final round up), or -1
ValidSize(cols) ==
  LET s == ValidSizeFrom(cols, 1, NullBitset(Len(cols)))
  IN IF s < 0 THEN -1 ELSE RoundUp4(s)

SizeErr(c) ==
  IF ValidSize(c.cols) < 0 \/ ValidSize(c.cols) > MAX_DATA_BYTE
  THEN "ColSizeTooBig" ELSE "Ok"

\* the validation without the test for a live table of that name
ValidateCreate_NoDupCheck(d, c) ==
  IF d.table_num = MAX_TABLE THEN "TableExhausted"
  ELSE IF Len(c.name) >= MAX_TABLE_NAME THEN "TableNameTooLong"
  ELSE IF Len(c.cols) >= MAX_COL THEN "ColTooMany"
  ELSE IF ColsErr(c, 1) # "Ok" THEN ColsErr(c, 1)
  ELSE IF ConsErr(d, c, 1) # "Ok" THEN ConsErr(d, c, 1)
  ELSE SizeErr(c)

\* the validation of create_table, in the order of the code
ValidateCreate(d, c) ==
  IF d.table_num = MAX_TABLE THEN "TableExhausted"
  ELSE IF Len(c.name) >= MAX_TABLE_NAME THEN "TableNameTooLong"
  ELSE IF \E i \in 0 .. (d.table_num - 1) : d.tables[i].name = c.name THEN "DupTable"
  ELSE IF Len(c.cols) >= MAX_COL THEN "ColTooMany"
  ELSE IF ColsErr(c, 1) # "Ok" THEN ColsErr(c, 1)
  ELSE IF ConsErr(d, c, 1) # "Ok" THEN ConsErr(d, c, 1)
  ELSE SizeErr(c)

\* the layout loop: the offset of column i (1-based) and the size after it
RECURSIVE LayoutAfter(_, _)
LayoutAfter(cols, i) ==
  IF i = 0 THEN NullBitset(Len(cols))
  ELSE LET before == LayoutAfter(cols, i - 1)
           at == IF align4(cols[i].ty) THEN RoundUp4(before) ELSE before
       IN U16(at + ty_size(cols[i].ty))

ColOff(cols, i) ==
  IF align4(cols[i].ty) THEN RoundUp4(LayoutAfter(cols, i - 1))
  ELSE LayoutAfter(cols, i - 1)

\* the record size the commit phase lays out
LayoutSize(cols) == RoundUp4(LayoutAfter(cols, Len(cols)))

Max2(a, b) == IF a >= b THEN a ELSE b

\* the column loop: every field of ColInfo i but flags' PRIMARY and UNIQUE
\* bits and foreign_col is written; those keep the bytes of the page
WriteCol(old, cols, i) ==
  [ old EXCEPT
      !.ty = cols[i].ty,
      !.off = ColOff(cols, i),
      !.index = None32,
      !.name = cols[i].name,
      !.flags = IF cols[i].notnull THEN old.flags \cup {NOTNULL}
                ELSE old.flags \ {NOTNULL},
      !.foreign_table = None8 ]

\* TablePage::init(id, size, col_num)
tp_init(tp, id, size, col_num) ==
  [ tp EXCEPT !.prev = id, !.next = id, !.first_free = None32,
              !.size = size, !.cap = MAX_DATA_BYTE \div size,
              !.col_num = col_num ]

\* the loop over c.cons of the commit phase, from constraint k on, on the
\* table-meta page tp
RECURSIVE ApplyCons(_, _, _, _)
ApplyCons(d, c, tp, k) ==
  IF k > Len(c.cons) THEN tp
  ELSE
    LET cons == c.cons[k]
        idx == ColIdx(c, cons.name)
        ci == tp.cols[idx]
        f == get_ci(d, cons.table, cons.col)
        ci2 == IF cons.kind = "Primary"
               THEN [ci EXCEPT !.flags =
                       ci.flags \cup {PRIMARY, NOTNULL}
                         \cup (IF primary_cnt(c) = 1 THEN {UNIQUE} ELSE {})]
               ELSE [ci EXCEPT !.foreign_table = get_ti(d, cons.table).idx % 256,
                               !.foreign_col = f.idx % 256]
    IN ApplyCons(d, c, [tp EXCEPT !.cols[idx] = ci2], k + 1)

\* IndexPage::init(leaf, key_size): the header of an empty node, its ring
\* links set to none
ip_init(ip, leaf, key_size) ==
  [ip EXCEPT !.prev = None32, !.next = None32,
             !.leaf = leaf, !.key_size = key_size, !.icount = 0, !.ch = <<>>,
             !.keys = <<>>]

\* create_index_impl on column idx of the table-meta page meta
create_index_impl(d, meta, idx) ==
  LET a == allocate_page(d)
  IN [ a.d EXCEPT
         !.mem[meta].cols[idx].index = a.id,
         !.mem[a.id] = ip_init(a.d.mem[a.id], TRUE,
                               ty_size(a.d.mem[meta].cols[idx].ty)) ]

\* the last loop of create_table: an index for every UNIQUE column, from idx on
RECURSIVE CreateUniqueIndexes(_, _, _)
CreateUniqueIndexes(d, meta, idx) ==
  IF idx >= d.mem[meta].col_num THEN d
  ELSE IF UNIQUE \in d.mem[meta].cols[idx].flags
  THEN CreateUniqueIndexes(create_index_impl(d, meta, idx), meta, idx + 1)
  ELSE CreateUniqueIndexes(d, meta, idx + 1)

\* the commit phase of create_table
CommitCreate(d, c) ==
  LET a == allocate_page(d)
      id == a.id
      n == Len(c.cols)
      tp0 == a.d.mem[id]
      tp1 == [tp0 EXCEPT !.cols = [i \in 0 .. (MAX_COL - 1) |->
                 IF i < n THEN WriteCol(tp0.cols[i], c.cols, i + 1)
                 ELSE tp0.cols[i]]]
      tp2 == tp_init(tp1, id, Max2(LayoutSize(c.cols), MIN_SLOT_SIZE), n)
      tp3 == ApplyCons(a.d, c, tp2, 1)
      d1 == [ a.d EXCEPT
                !.mem[id] = tp3,
                !.tables[a.d.table_num] = [meta |-> id, name |-> c.name],
                !.table_num = a.d.table_num + 1 ]
  IN CreateUniqueIndexes(d1, id, 0)

\* create_table with the table-meta page allocated ahead of the validation
create_table_AllocFirst(d, c) ==
  IF ValidateCreate(d, c) # "Ok"
  THEN [d |-> allocate_page(d).d, r |-> ValidateCreate(d, c)]
  ELSE [d |-> CommitCreate(d, c), r |-> "Ok"]

\* create_table: [d |-> the database afterwards, r |-> "Ok" or the error]
create_table(d, c) ==
  IF ValidateCreate(d, c) # "Ok" THEN [d |-> d, r |-> ValidateCreate(d, c)]
  ELSE [d |-> CommitCreate(d, c), r |-> "Ok"]

\* ---------------------------------------------------------- drop_index
\* dfs of drop_index_impl: the children of an internal page are freed first,
\* each child id read from the page when its turn comes, then the page.
\* fuel bounds the depth of the recursion by the number of pages.
RECURSIVE dfs(_, _, _)
RECURSIVE dfs_children(_, _, _, _)
dfs_children(d, page, i, fuel) ==
  IF i >= d.mem[page].icount \/ i >= Len(d.mem[page].ch) THEN d
  ELSE dfs_children(dfs(d, d.mem[page].ch[i + 1], fuel), page, i + 1, fuel)

dfs(d, page, fuel) ==
  IF fuel = 0 \/ page \notin DOMAIN d.mem THEN d
  ELSE IF ~d.mem[page].leaf
  THEN deallocate_page(dfs_children(d, page, 0, fuel - 1), page)
  ELSE deallocate_page(d, page)

\* drop_index_impl that leaves the column's index in place
drop_index_impl_KeepsIndex(d, meta, idx) ==
  dfs(d, d.mem[meta].cols[idx].index, d.pages)

\* drop_index_impl that frees the root page alone
drop_index_impl_RootOnly(d, meta, idx) ==
  LET d1 == deallocate_page(d, d.mem[meta].cols[idx].index)
  IN [d1 EXCEPT !.mem[meta].cols[idx].index = None32]

\* drop_index_impl on column idx of the table-meta page meta
drop_index_impl(d, meta, idx) ==
  LET d1 == dfs(d, d.mem[meta].cols[idx].index, d.pages)
  IN [d1 EXCEPT !.mem[meta].cols[idx].index = None32]

\* drop_index without the refusal for UNIQUE columns
drop_index_NoUniqueCheck(d, table, col) ==
  LET ci == get_ci(d, table, col)
  IN IF ci.err # "Ok" THEN [d |-> d, r |-> ci.err]
     ELSE IF d.mem[ci.meta].cols[ci.idx].index = None32
     THEN [d |-> d, r |-> "NoSuchIndex"]
     ELSE [d |-> drop_index_impl(d, ci.meta, ci.idx), r |-> "Ok"]

\* drop_index: [d, r]
drop_index(d, table, col) ==
  LET ci == get_ci(d, table, col)
  IN IF ci.err # "Ok" THEN [d |-> d, r |-> ci.err]
     ELSE IF d.mem[ci.meta].cols[ci.idx].index = None32
     THEN [d |-> d, r |-> "NoSuchIndex"]
     ELSE IF UNIQUE \in d.mem[ci.meta].cols[ci.idx].flags
     THEN [d |-> d, r |-> "DropIndexOnUnique"]
     ELSE [d |-> drop_index_impl(d, ci.meta, ci.idx), r |-> "Ok"]

\* --------------------------------------------------------- create_index
\* record_iter(tp).count(): the set bits of the data pages met on the ring
\* from tp.next back to the table-meta page
RECURSIVE RingCount(_, _, _, _)
RingCount(d, cur, meta, fuel) ==
  IF cur = meta \/ fuel = 0 \/ cur \notin DOMAIN d.mem THEN 0
  ELSE Cardinality(d.mem[cur].used) + RingCount(d, d.mem[cur].next, meta, fuel - 1)

record_count(d, meta) == RingCount(d, d.mem[meta].next, meta, d.pages)

\* create_index: [d, r]
create_index(d, table, col) ==
  LET ti == get_ti(d, table)
      meta == d.tables[ti.idx].meta
      ci == tp_get_ci(d.mem[meta], col)
  IN IF ti.err # "Ok" THEN [d |-> d, r |-> ti.err]
     ELSE IF record_count(d, meta) # 0 THEN [d |-> d, r |-> "CreateIndexOnNonEmpty"]
     ELSE IF ci.err # "Ok" THEN [d |-> d, r |-> ci.err]
     ELSE IF d.mem[meta].cols[ci.idx].index # None32 THEN [d |-> d, r |-> "DupIndex"]
     ELSE [d |-> create_index_impl(d, meta, ci.idx), r |-> "Ok"]

\* ----------------------------------------------------------- drop_table
\* the scan of every live table's live columns for foreign_table == idx as u8
HasForeignLink(d, idx) ==
  \E i \in 0 .. (d.table_num - 1) :
    \E j \in 0 .. (d.mem[d.tables[i].meta].col_num - 1) :
      d.mem[d.tables[i].meta].cols[j].foreign_table = idx % 256

\* the loop that drops every index the table owns, from column i on
RECURSIVE DropIndexes(_, _, _)
DropIndexes(d, meta, i) ==
  IF i >= d.mem[meta].col_num THEN d
  ELSE IF d.mem[meta].cols[i].index # None32
  THEN DropIndexes(drop_index_impl(d, meta, i), meta, i + 1)
  ELSE DropIndexes(d, meta, i + 1)

\* the loop over the ring: read cur's next, deallocate cur, go on with next
\* until it is the table-meta page
RECURSIVE FreeRing(_, _, _, _)
FreeRing(d, cur, meta, fuel) ==
  IF fuel = 0 \/ cur \notin DOMAIN d.mem THEN d
  ELSE LET nxt == d.mem[cur].next
           d1 == deallocate_page(d, cur)
       IN IF nxt = meta THEN d1 ELSE FreeRing(d1, nxt, meta, fuel - 1)

\* the directory left as it is: only table_num will drop the last descriptor
SwapWithLast_NoMove(d, idx) == d

\* tables[idx] and tables[table_num - 1] swapped
SwapWithLast(d, idx) ==
  [d EXCEPT !.tables[idx] = d.tables[d.table_num - 1],
            !.tables[d.table_num - 1] = d.tables[idx]]

\* drop_table: [d, r]
drop_table(d, name) ==
  LET ti == get_ti(d, name)
  IN IF ti.err # "Ok" THEN [d |-> d, r |-> ti.err]
     ELSE IF HasForeignLink(d, ti.idx) THEN [d |-> d, r |-> "DropTableWithForeignLink"]
     ELSE
       LET meta == d.tables[ti.idx].meta
           d1 == SwapWithLast(d, ti.idx)
           d2 == [d1 EXCEPT !.table_num = d1.table_num - 1]
           d3 == DropIndexes(d2, meta, 0)
       IN [d |-> FreeRing(d3, d3.mem[meta].next, meta, d3.pages), r |-> "Ok"]

\* ------------------------------------------------------------ data slots
\* DataPage::init(prev, next)
dp_init(dp, prev, next) ==
  [dp EXCEPT !.prev = prev, !.next = next, !.next_free = None32,
             !.count = 0, !.used = {}]

\* the bits the bitmap search looks at: the words 0 .. (cap + 31) / 32 - 1
SearchBits(cap) == 0 .. (((cap + 31) \div 32) * 32 - 1)

\* allocate_data_slot on the table-meta page meta: [d, rid].  When the search
\* finds no clear bit the slot is read uninitialized: junk stands for it.
allocate_data_slot(d, meta, junk) ==
  LET tp == d.mem[meta]
      a == allocate_page(d)
      d1 == IF tp.first_free = None32
            THEN [ a.d EXCEPT
                     !.mem[a.id] = dp_init(a.d.mem[a.id], tp.prev, meta),
                     !.mem[meta].first_free = a.id ]
            ELSE d
      free_page == d1.mem[meta].first_free
      dp == d1.mem[free_page]
      clear == SearchBits(tp.cap) \ dp.used
      slot == IF clear = {} THEN junk ELSE Min(clear)
      used2 == IF clear = {} THEN dp.used ELSE dp.used \cup {slot}
      count2 == U16(dp.count + 1)
      d2 == [ d1 EXCEPT !.mem[free_page].used = used2,
                        !.mem[free_page].count = count2 ]
  IN [ d   |-> IF count2 = tp.cap
               THEN [d2 EXCEPT !.mem[meta].first_free = dp.next_free]
               ELSE d2,
       rid |-> [page |-> free_page, slot |-> slot] ]

\* deallocate_data_slot on the table-meta page meta
deallocate_data_slot(d, meta, rid) ==
  LET tp == d.mem[meta]
      dp == d.mem[rid.page]
      d1 == [d EXCEPT !.mem[rid.page].used = dp.used \ {rid.slot}]
      d2 == IF dp.count = tp.cap
            THEN [ d1 EXCEPT !.mem[rid.page].next_free = tp.first_free,
                             !.mem[meta].first_free = rid.page ]
            ELSE d1
  IN [d2 EXCEPT !.mem[rid.page].count = U16(dp.count + 65535)]

\* -------------------------------------------------------------- actions
\* every call starts with an empty record of deallocate_page calls
Begin(d) == [d EXCEPT !.pushed = <<>>]

\* What is kept of a page on the free-page list: word 0 (the link) and the
\* flags of its ColInfos.  No operation reads any other byte of a page it
\* takes from allocate_page before it has written it (tp_init, dp_init,
\* ip_init and WriteCol), so those bytes are left out of the state.
FreePage(pg) ==
  [ ZeroPage EXCEPT
      !.prev = pg.prev,
      !.cols = [i \in 0 .. (MAX_COL - 1) |->
                  [ZeroCol EXCEPT !.flags = pg.cols[i].flags]] ]

Range(f) == {f[x] : x \in DOMAIN f}

\* Likewise the descriptors tables[table_num ..] are scratch: create_table
\* writes tables[table_num] whole before table_num covers it.
Canon(d) ==
  [ d EXCEPT
      !.mem = [p \in DOMAIN d.mem |->
        IF p \in Range(FreeList(d)) THEN FreePage(d.mem[p]) ELSE d.mem[p]],
      !.tables = [i \in 0 .. (MAX_TABLE - 1) |->
        IF i < d.table_num THEN d.tables[i] ELSE ZeroTableInfo] ]

\* the call o(a) ran on db and ended as res = [d, r]
Do(o, a, res) ==
  /\ res.d.pages <= maxPages
  /\ db' = Canon(res.d)
  /\ op' = o
  /\ arg' = a
  /\ ret' = res.r
  /\ UNCHANGED maxPages

ForeignParents(c) ==
  {c.cons[k].table : k \in {k \in 1 .. Len(c.cons) : c.cons[k].kind = "Foreign"}}

CreateTable(Stmts) ==
  \E c \in Stmts :
    LET res == create_table(Begin(db), c)
    IN /\ Do("create_table", c, res)
       /\ refs' = IF res.r = "Ok"
                  THEN refs \cup {<<c.name, p>> : p \in ForeignParents(c)}
                  ELSE refs
       /\ UNCHANGED <<live, freed, rows>>

DropTable(Names) ==
  \E name \in Names :
    LET res == drop_table(Begin(db), name)
        meta == db.tables[get_ti(db, name).idx].meta
    IN /\ Do("drop_table", name, res)
       /\ refs' = IF res.r = "Ok" THEN {x \in refs : x[1] # name} ELSE refs
       /\ rows' = IF res.r = "Ok" THEN {x \in rows : x.meta # meta} ELSE rows
       /\ UNCHANGED <<live, freed>>

CreateIndex(Names, Cols) ==
  \E table \in Names, col \in Cols :
    /\ Do("create_index", <<table, col>>, create_index(Begin(db), table, col))
    /\ UNCHANGED <<live, freed, refs, rows>>

DropIndex(Names, Cols) ==
  \E table \in Names, col \in Cols :
    /\ Do("drop_index", <<table, col>>, drop_index(Begin(db), table, col))
    /\ UNCHANGED <<live, freed, refs, rows>>

\* the values an uninitialized slot number is drawn from
JunkSlots == {0, 1}

\* allocate_data_slot(tp) for the table-meta page of a live table; the Rid
\* it returns is recorded in arg
AllocateDataSlot ==
  \E i \in 0 .. (db.table_num - 1), junk \in JunkSlots :
    LET meta == db.tables[i].meta
        res == allocate_data_slot(Begin(db), meta, junk)
    IN /\ Do("allocate_data_slot", [meta |-> meta, rid |-> res.rid],
             [d |-> res.d, r |-> "Ok"])
       /\ rows' = rows \cup {[meta |-> meta, rid |-> res.rid]}
       /\ UNCHANGED <<live, freed, refs>>

\* deallocate_data_slot(tp, rid) for a live Rid of a live table
DeallocateDataSlot ==
  \E x \in rows :
    /\ Do("deallocate_data_slot", x,
          [d |-> deallocate_data_slot(Begin(db), x.meta, x.rid), r |-> "Ok"])
    /\ rows' = rows \ {x}
    /\ UNCHANGED <<live, freed, refs>>

\* --------------------------------------------------------- statements
IntTy == [ty |-> "Int", size |-> 0]
Col(n, t, nn) == [name |-> n, ty |-> t, notnull |-> nn]
Primary(n) == [name |-> n, kind |-> "Primary", table |-> "", col |-> ""]
Foreign(n, t, c) == [name |-> n, kind |-> "Foreign", table |-> t, col |-> c]
Stmt(n, cs, k) == [name |-> n, cols |-> cs, cons |-> k]

\* ------------------------------------------------------ the catalog runs
\* One table name, every shape of primary key, index and data-slot calls.
CharTy(n) == [ty |-> "Char", size |-> n]
VarCharTy(n) == [ty |-> "VarChar", size |-> n]

ColA == Col("a", IntTy, FALSE)
ColB == Col("b", IntTy, FALSE)

\* statements that validation refuses whatever the tables are
BadStmts(n) ==
  { Stmt("longname", <<ColA>>, <<>>),
    Stmt(n, <<ColA, ColB, Col("c", IntTy, FALSE)>>, <<>>),
    Stmt(n, <<ColA, ColA>>, <<>>),
    Stmt(n, <<Col("longcol", IntTy, FALSE)>>, <<>>),
    Stmt(n, <<ColA>>, <<Primary("b")>>),
    Stmt(n, <<ColA, Col("b", CharTy(9), FALSE)>>, <<>>) }

Names == {"t1"}
ColNames == {"a", "b"}

Stmts ==
  { Stmt("t1", <<ColA>>, <<>>),
    Stmt("t1", <<ColA>>, <<Primary("a")>>),
    Stmt("t1", <<Col("a", IntTy, TRUE), ColB>>, <<Primary("b")>>),
    Stmt("t1", <<ColA, ColB>>, <<Primary("a"), Primary("b")>>) }
  \cup BadStmts("t1")

\* the data-slot calls are taken while fewer than MaxRows Rids are live
MaxRows == 1

\* a fresh database, as Db::create leaves it
Fresh(cap) ==
  /\ db = InitDb
  /\ op = "create"
  /\ arg = ""
  /\ ret = "Ok"
  /\ live = {}
  /\ freed = <<>>
  /\ refs = {}
  /\ rows = {}
  /\ maxPages = cap
  /\ steps = 0

Init == Fresh(MaxPages)

CatCreateTable == CreateTable(Stmts) /\ UNCHANGED steps
CatDropTable == DropTable(Names) /\ UNCHANGED steps
CatCreateIndex == CreateIndex(Names, ColNames) /\ UNCHANGED steps
CatDropIndex == DropIndex(Names, ColNames) /\ UNCHANGED steps
CatAllocateDataSlot ==
  Cardinality(rows) < MaxRows /\ AllocateDataSlot /\ UNCHANGED steps
CatDeallocateDataSlot == DeallocateDataSlot /\ UNCHANGED steps

Next ==
  \/ CatCreateTable
  \/ CatDropTable
  \/ CatCreateIndex
  \/ CatDropIndex
  \/ CatAllocateDataSlot
  \/ CatDeallocateDataSlot

Spec == Init /\ [][Next]_vars

\* the table-meta page of the live table `name`
MetaOf(d, name) == d.tables[get_ti(d, name).idx].meta

\* the data pages that hold the live Rids of the table whose page is meta
RowPages(meta) == {x.rid.page : x \in {y \in rows : y.meta = meta}}

Count(seq, v) == Cardinality({k \in 1 .. Len(seq) : seq[k] = v})

C3_Step ==
  (op' = "drop_table" /\ ret' = "Ok") =>
    LET meta == MetaOf(db, arg')
        own == {meta} \cup RowPages(meta)
        ps == db'.pushed
    IN /\ \A pg \in own : Count(ps, pg) = 1
       /\ ps # <<>> /\ ps[Len(ps)] = meta
       /\ own \subseteq Range(FreeList(db'))

\* C3: a successful drop_table pushes the table-meta page and every data page
\* of the table onto the free-page list, each exactly once and the
\* table-meta page last.
C3_DropFreesEveryPage == [][C3_Step]_vars

\* the columns that the Primary constraints of statement c name
PrimaryCols(c) ==
  {c.cons[k].name : k \in {k \in 1 .. Len(c.cons) : c.cons[k].kind = "Primary"}}

\* the table-meta page of the table created last
NewMeta(d) == d.tables[d.table_num - 1].meta

\* C4: after a successful create_table a column carries PRIMARY iff a Primary
\* constraint of the statement names it, and UNIQUE iff it is the single
\* primary column of the statement, whatever page allocate_page handed out.
C4_FlagsFromStatement ==
  (op = "create_table" /\ ret = "Ok") =>
    \A i \in 1 .. Len(arg.cols) :
      LET flags == db.mem[NewMeta(db)].cols[i - 1].flags
          prim == arg.cols[i].name \in PrimaryCols(arg)
      IN /\ (PRIMARY \in flags) <=> prim
         /\ (UNIQUE \in flags) <=> (prim /\ Cardinality(PrimaryCols(arg)) = 1)

\* the live columns: <<table-meta page, column position>>
LiveCols(d) ==
  UNION { {<<d.tables[i].meta, j>> : j \in 0 .. (d.mem[d.tables[i].meta].col_num - 1)} :
          i \in 0 .. (d.table_num - 1) }

\* C8: every live column that carries UNIQUE has an index; drop_index on a
\* UNIQUE column fails with DropIndexOnUnique and leaves the index in place.
C8_UniqueHasIndex ==
  /\ \A x \in LiveCols(db) :
       UNIQUE \in db.mem[x[1]].cols[x[2]].flags
         => db.mem[x[1]].cols[x[2]].index # None32
  /\ (op = "drop_index" /\ get_ci(db, arg[1], arg[2]).err = "Ok") =>
       LET ci == get_ci(db, arg[1], arg[2])
       IN UNIQUE \in db.mem[ci.meta].cols[ci.idx].flags
            => ret = "DropIndexOnUnique"

\* a table with a UNIQUE column was created, and drop_index on it was refused
C8_Witness ==
  /\ op = "drop_index"
  /\ ret = "DropIndexOnUnique"
  /\ \E x \in LiveCols(db) :
       /\ UNIQUE \in db.mem[x[1]].cols[x[2]].flags
       /\ db.mem[x[1]].cols[x[2]].index # None32

\* ------------------------------------------------- the foreign-key runs
\* Four table names: two plain tables, a parent with a primary key and a
\* child with a foreign key on the parent.
LinkNames == {"x", "y", "p", "c"}

LinkStmts ==
  { Stmt("x", <<ColA>>, <<>>),
    Stmt("y", <<ColA>>, <<>>),
    Stmt("p", <<ColA>>, <<Primary("a")>>),
    Stmt("c", <<ColA>>, <<Foreign("a", "p", "a")>>) }

InitLink == Fresh(MaxLinkPages)

Tick == steps < MaxLinkSteps /\ steps' = steps + 1

LinkCreateTable == CreateTable(LinkStmts) /\ Tick
LinkDropTable == DropTable(LinkNames) /\ Tick

NextLink == LinkCreateTable \/ LinkDropTable

SpecLink == InitLink /\ [][NextLink]_vars

\* the table of that name is live
LiveName(d, name) == get_ti(d, name).err = "Ok"

\* some live table declared a foreign key on the table `name`
Referenced(name) == \E x \in refs : x[2] = name /\ LiveName(db, x[1])

\* C1: drop_table(P) fails with DropTableWithForeignLink whenever some live
\* table has a column whose foreign key was declared as referencing P, so
\* that no referenced table is removed while a referencing table is live.
C1_DropReferencedRefused ==
  /\ (op = "drop_table" /\ Referenced(arg)) => ret = "DropTableWithForeignLink"
  /\ \A x \in refs : LiveName(db, x[1]) => LiveName(db, x[2])

\* C2: drop_table(T) of a live table T that no live table declares as its
\* foreign-key target succeeds, and T is no longer found by get_ti.
C2_DropUnreferencedSucceeds ==
  (op = "drop_table" /\ ret # "NoSuchTable" /\ ~Referenced(arg))
    => (ret = "Ok" /\ ~LiveName(db, arg))

\* ---------------------------------------------------- the error runs
\* A parent and a child table, every statement that validation refuses, and
\* the index and drop calls that fail.
MaxErrPages == 4

ErrNames == {"p", "c"}

ErrStmts ==
  { Stmt("p", <<ColA>>, <<Primary("a")>>),
    Stmt("p", <<ColA, ColB>>, <<>>),
    Stmt("c", <<ColA>>, <<Foreign("a", "p", "a")>>),
    Stmt("c", <<ColA>>, <<Foreign("a", "q", "a")>>),
    Stmt("c", <<ColA>>, <<Foreign("a", "p", "z")>>),
    Stmt("c", <<ColA>>, <<Foreign("a", "p", "b")>>),
    Stmt("c", <<Col("a", CharTy(2), FALSE)>>, <<Foreign("a", "p", "a")>>) }
  \cup BadStmts("c")

InitErr == Fresh(MaxErrPages)

ErrCreateTable == CreateTable(ErrStmts) /\ UNCHANGED steps
ErrDropTable == DropTable(ErrNames \cup {"q"}) /\ UNCHANGED steps
ErrCreateIndex == CreateIndex(ErrNames, {"a", "b", "z"}) /\ UNCHANGED steps
ErrDropIndex == DropIndex(ErrNames, {"a", "b", "z"}) /\ UNCHANGED steps

NextErr == ErrCreateTable \/ ErrDropTable \/ ErrCreateIndex \/ ErrDropIndex

SpecErr == InitErr /\ [][NextErr]_vars

\* the database without the record of the call's deallocate_page calls
Persist(d) == [d EXCEPT !.pushed = <<>>]

CatalogOps == {"create_table", "drop_table", "create_index", "drop_index"}

C6_Step ==
  (op' \in CatalogOps /\ ret' # "Ok") => Persist(db') = Persist(db)

\* C6: whenever create_table, drop_table, create_index or drop_index returns
\* an error, the database is exactly as before the call: table_num, the table
\* descriptors, every column's flags, index and foreign reference, the
\* free-page list and the page count.
C6_ErrorLeavesDb == [][C6_Step]_vars

\* a create_table that fails in its last validation step, on a database
\* that has a live table and a non-empty free-page list
C6_Witness ==
  /\ op = "create_table"
  /\ ret = "ColSizeTooBig"
  /\ db.table_num > 0
  /\ db.first_free # None32

\* --------------------------------------------------- the foreign-type runs
\* A parent p(a) of every column type and a child c(a) of every column type
\* with a foreign key on p.
Ty(t) == [ty |-> t, size |-> 0]

LinkTys ==
  {Ty("Int"), Ty("Bool"), Ty("Float"), Ty("Date"),
   CharTy(1), CharTy(2), VarCharTy(1), VarCharTy(2)}

TyStmts ==
  {Stmt("p", <<Col("a", t, FALSE)>>, <<Primary("a")>>) : t \in LinkTys}
  \cup {Stmt("p", <<ColA, ColB>>, <<Primary("a"), Primary("b")>>)}
  \cup {Stmt("c", <<Col("a", t, FALSE)>>, <<Foreign("a", "p", "a")>>) : t \in LinkTys}
  \cup {Stmt("c", <<ColA>>, <<Foreign("a", "p", "z")>>),
        Stmt("c", <<ColA>>, <<Foreign("a", "q", "a")>>)}

InitTy == Fresh(MaxErrPages)

TyCreateTable == CreateTable(TyStmts) /\ UNCHANGED steps
TyDropTable == DropTable(ErrNames) /\ UNCHANGED steps

NextTy == TyCreateTable \/ TyDropTable

SpecTy == InitTy /\ [][NextTy]_vars

\* the errors create_table raises before it looks at the constraints
EarlyErrs ==
  {"TableExhausted", "TableNameTooLong", "DupTable", "ColTooMany",
   "DupCol", "ColNameTooLong"}

\* the statement has one constraint, a Foreign one on a column it declares
IsForeignStmt(c) ==
  /\ Len(c.cons) = 1
  /\ c.cons[1].kind = "Foreign"
  /\ ColIdx(c, c.cons[1].name) >= 0

\* compatible: both strings and own at least as long, or both numeric
BothNumeric(own, f) ==
  \/ own.ty \in StrTys /\ f.ty \in StrTys /\ own.size >= f.size
  \/ own.ty \in NumTys /\ f.ty \in NumTys

\* compatible: both strings and own at least as long, or the same numeric type
SameNumeric(own, f) ==
  \/ own.ty \in StrTys /\ f.ty \in StrTys /\ own.size >= f.size
  \/ own.ty \in NumTys /\ f.ty = own.ty

\* what create_table answers to a statement with a foreign key, Compat
\* being the rule of type compatibility
ForeignRule(Compat(_, _)) ==
  (op = "create_table" /\ IsForeignStmt(arg) /\ ret \notin EarlyErrs) =>
    LET cons == arg.cons[1]
        own == arg.cols[ColIdx(arg, cons.name) + 1].ty
        r == get_ci(db, cons.table, cons.col)
        f == db.mem[r.meta].cols[r.idx]
    IN /\ r.err # "Ok" => ret = r.err
       /\ (r.err = "Ok" /\ UNIQUE \notin f.flags) => ret = "ForeignKeyOnNonUnique"
       /\ (r.err = "Ok" /\ UNIQUE \in f.flags) =>
            /\ Compat(own, f.ty) => ret = "Ok"
            /\ ~Compat(own, f.ty) => ret = "IncompatibleForeignTy"

\* C9 with any two numeric types compatible: create_table accepts a Foreign constraint only if the
\* referenced column exists and carries UNIQUE, and the types are compatible
\* exactly when both are Char/VarChar with own size >= foreign size or both
\* are among Int/Bool/Float/Date; every other pair fails with
\* IncompatibleForeignTy.
C9_AnyNumericPair == ForeignRule(BothNumeric)

\* C9: as above, but two numeric columns are compatible only when
\* they are of the same type (Int/Int, Bool/Bool, Float/Float, Date/Date).
C9_SameNumericType == ForeignRule(SameNumeric)

\* a foreign key between two different numeric types was refused
C9_Witness ==
  /\ op = "create_table"
  /\ IsForeignStmt(arg)
  /\ ret = "IncompatibleForeignTy"
  /\ arg.cols[1].ty.ty \in NumTys
  /\ db.mem[MetaOf(db, "p")].cols[0].ty.ty \in NumTys

\* --------------------------------------------------------- the size runs
\* One table of one or two columns of every size class.
SizeTys == {Ty("Bool"), Ty("Int"), CharTy(3), CharTy(9), VarCharTy(2), VarCharTy(6)}

SizeStmts ==
  {Stmt("t1", <<Col("a", t, FALSE)>>, <<>>) : t \in SizeTys}
  \cup {Stmt("t1", <<Col("a", t, FALSE), Col("b", u, FALSE)>>, <<>>) :
          t \in SizeTys, u \in SizeTys}

InitSize == Fresh(MaxPages)

SizeCreateTable == CreateTable(SizeStmts) /\ UNCHANGED steps
SizeDropTable == DropTable(Names) /\ UNCHANGED steps

NextSize == SizeCreateTable \/ SizeDropTable

SpecSize == InitSize /\ [][NextSize]_vars

\* the record size with the alignment applied exceeds MAX_DATA_BYTE at a step
AlignedTooBig(cols) ==
  \/ \E i \in 1 .. Len(cols) : LayoutAfter(cols, i) > MAX_DATA_BYTE
  \/ LayoutSize(cols) > MAX_DATA_BYTE

\* C7: create_table fails with ColSizeTooBig whenever the record size,
\* rounded up to 4 before each column that needs 4-byte alignment and at the
\* end, exceeds MAX_DATA_BYTE at any step; the size validation checks is the
\* size the commit phase lays out, and every created table has a committed
\* record size of at most MAX_DATA_BYTE.
C7_SizeValidated ==
  (op = "create_table" /\ ret \in {"Ok", "ColSizeTooBig"}) =>
    /\ AlignedTooBig(arg.cols) => ret = "ColSizeTooBig"
    /\ ret = "Ok" =>
         /\ ValidSize(arg.cols) = LayoutSize(arg.cols)
         /\ db.mem[NewMeta(db)].size <= MAX_DATA_BYTE

\* -------------------------------------------------------- the pager runs
\* allocate_page and deallocate_page called directly; the caller owns the
\* pages it was handed (live) and writes their first word as it likes.
MaxPagerPages == 5

\* the values a caller writes into word 0 of a page it owns
Word0 == {0, 3}

\* seq without the value v
RECURSIVE Without(_, _)
Without(seq, v) ==
  IF seq = <<>> THEN <<>>
  ELSE IF seq[1] = v THEN Without(Tail(seq), v)
  ELSE <<seq[1]>> \o Without(Tail(seq), v)

InitPager == Fresh(MaxPagerPages)

PagerAllocatePage ==
  LET a == allocate_page(Begin(db))
  IN /\ Do("allocate_page", "", [d |-> a.d, r |-> a.id])
     /\ live' = live \cup {a.id}
     /\ freed' = Without(freed, a.id)
     /\ UNCHANGED <<refs, rows, steps>>

PagerDeallocatePage ==
  \E page \in live :
    /\ Do("deallocate_page", page,
          [d |-> deallocate_page(Begin(db), page), r |-> "Ok"])
    /\ live' = live \ {page}
    /\ freed' = Append(freed, page)
    /\ UNCHANGED <<refs, rows, steps>>

PagerWritePage ==
  \E page \in live, w \in Word0 :
    /\ Do("write_page", <<page, w>>,
          [d |-> [Begin(db) EXCEPT !.mem[page].prev = w], r |-> "Ok"])
    /\ UNCHANGED <<live, freed, refs, rows, steps>>

NextPager == PagerAllocatePage \/ PagerDeallocatePage \/ PagerWritePage

SpecPager == InitPager /\ [][NextPager]_vars

C5_Step ==
  op' = "allocate_page" =>
    IF freed # <<>>
    THEN ret' = freed[Len(freed)] /\ db'.pages = db.pages
    ELSE ret' = db.pages /\ db'.pages = db.pages + 1

\* C5: the free-page list is LIFO: allocate_page returns the page deallocated
\* last among those not handed out again and leaves pages unchanged; only
\* when no such page exists it returns the old value of pages and increments
\* pages by one.
C5_FreeListLifo == [][C5_Step]_vars

\* allocate_page reused a page that was not the one deallocated first, and
\* freed pages remain
C5_Witness ==
  /\ op = "allocate_page"
  /\ freed # <<>>
  /\ ret < freed[1]
  /\ ret \in live

\* ---------------------------------------------------------- the open runs
\* A file of any length and magic is written, opened, extended page by page
\* and closed.
MaxFilePages == 4

Magics == {MAGIC, ZeroMagic, OtherMagic}

\* the bytes a file has beyond its last whole page
Ragged == {0, 1, 128, 8191}

FileLens == {n * PAGE_SIZE + r : n \in 0 .. (MaxFilePages - 1), r \in Ragged}

\* a closed file of that length and magic whose whole pages are well formed
FileOf(len, magic) ==
  [ InitDb EXCEPT
      !.isOpen = FALSE,
      !.fileLen = len,
      !.magic = magic,
      !.pages = 0,
      !.mem = [p \in 1 .. ((len \div PAGE_SIZE) - 1) |-> ZeroPage] ]

\* Db::open with the magic compared ahead of the size
open_MagicFirst(d) ==
  IF d.magic # MAGIC
  THEN [d |-> [d EXCEPT !.isOpen = FALSE, !.pages = 0], r |-> "InvalidMagic"]
  ELSE IF d.fileLen = 0 \/ d.fileLen % PAGE_SIZE # 0
  THEN [d |-> [d EXCEPT !.isOpen = FALSE, !.pages = 0], r |-> "InvalidSize"]
  ELSE [d |-> [d EXCEPT !.isOpen = TRUE, !.pages = d.fileLen \div PAGE_SIZE],
        r |-> "Ok"]

\* Db::open on the file that d holds: [d, r]
open(d) ==
  IF d.fileLen = 0 \/ d.fileLen % PAGE_SIZE # 0
  THEN [d |-> [d EXCEPT !.isOpen = FALSE, !.pages = 0], r |-> "InvalidSize"]
  ELSE IF d.magic # MAGIC
  THEN [d |-> [d EXCEPT !.isOpen = FALSE, !.pages = 0], r |-> "InvalidMagic"]
  ELSE [d |-> [d EXCEPT !.isOpen = TRUE, !.pages = d.fileLen \div PAGE_SIZE],
        r |-> "Ok"]

\* Db::create: a file of one page with the magic and no table
create(d) == [d |-> InitDb, r |-> "Ok"]

InitOpen == Fresh(MaxFilePages)

Quiet == UNCHANGED <<live, freed, refs, rows, steps>>

\* somebody writes the file while no Db holds it
OpenWriteFile ==
  \E len \in FileLens, magic \in Magics :
    /\ ~db.isOpen
    /\ Do("write_file", <<len, magic>>, [d |-> FileOf(len, magic), r |-> "Ok"])
    /\ Quiet

OpenOpen == ~db.isOpen /\ Do("open", "", open(Begin(db))) /\ Quiet

OpenCreate == ~db.isOpen /\ Do("create", "", create(Begin(db))) /\ Quiet

\* the Db is dropped, the file stays
OpenClose ==
  /\ db.isOpen
  /\ Do("close", "", [d |-> [Begin(db) EXCEPT !.isOpen = FALSE, !.pages = 0], r |-> "Ok"])
  /\ Quiet

OpenAllocatePage ==
  /\ db.isOpen
  /\ LET a == allocate_page(Begin(db))
     IN Do("allocate_page", "", [d |-> a.d, r |-> a.id])
  /\ Quiet

NextOpen ==
  OpenWriteFile \/ OpenOpen \/ OpenCreate \/ OpenClose \/ OpenAllocatePage

SpecOpen == InitOpen /\ [][NextOpen]_vars

\* C10: open fails with InvalidSize when the file length is zero or not a
\* multiple of the page size, whatever the magic; with InvalidMagic when the
\* length is a positive multiple of the page size and the magic differs;
\* otherwise it succeeds with pages = length / page size.
C10_OpenChecks ==
  op = "open" =>
    /\ (db.fileLen = 0 \/ db.fileLen % PAGE_SIZE # 0) => ret = "InvalidSize"
    /\ (db.fileLen > 0 /\ db.fileLen % PAGE_SIZE = 0 /\ db.magic # MAGIC)
         => ret = "InvalidMagic"
    /\ (db.fileLen > 0 /\ db.fileLen % PAGE_SIZE = 0 /\ db.magic = MAGIC)
         => (ret = "Ok" /\ db.isOpen /\ db.pages = db.fileLen \div PAGE_SIZE)

\* a file of a bad length and a bad magic was opened
C10_Witness ==
  /\ op = "open"
  /\ ret = "InvalidSize"
  /\ db.magic # MAGIC
  /\ db.fileLen > 0

\* -------------------------------------------------------- the reopen runs
\* Pages are allocated and deallocated, the Db is dropped and the file is
\* opened again, or created anew.
MaxReopenPages == 4

InitReopen == Fresh(MaxReopenPages)

ReAllocatePage == db.isOpen /\ PagerAllocatePage
ReDeallocatePage == db.isOpen /\ PagerDeallocatePage
ReWritePage == db.isOpen /\ PagerWritePage

ReClose ==
  /\ db.isOpen
  /\ Do("close", "", [d |-> [Begin(db) EXCEPT !.isOpen = FALSE, !.pages = 0], r |-> "Ok"])
  /\ UNCHANGED <<live, freed, refs, rows, steps>>

ReOpen ==
  /\ ~db.isOpen
  /\ Do("open", "", open(Begin(db)))
  /\ UNCHANGED <<live, freed, refs, rows, steps>>

\* create sets the file's length to one page and writes the meta page anew
ReCreate ==
  /\ ~db.isOpen
  /\ Do("create", "", create(Begin(db)))
  /\ live' = {}
  /\ freed' = <<>>
  /\ UNCHANGED <<refs, rows, steps>>

NextReopen ==
  \/ ReAllocatePage
  \/ ReDeallocatePage
  \/ ReWritePage
  \/ ReClose
  \/ ReOpen
  \/ ReCreate

SpecReopen == InitReopen /\ [][NextReopen]_vars

\* the bytes of the file: everything but the Db object's own fields
FileBytes(d) == [d EXCEPT !.isOpen = FALSE, !.pages = 0, !.pushed = <<>>]

C11_Step ==
  /\ db'.isOpen => db'.pages * PAGE_SIZE = db'.fileLen
  /\ op' = "close" => FileBytes(db') = FileBytes(db)
  /\ op' = "open" =>
       /\ ret' = "Ok"
       /\ FileBytes(db') = FileBytes(db)
       /\ db'.pages = db.fileLen \div PAGE_SIZE
       /\ db'.first_free = db.first_free
       /\ FreeList(db') = [i \in 1 .. Len(freed) |-> freed[Len(freed) + 1 - i]]
  /\ (op' = "open" /\ FileBytes(db) = FileBytes(InitDb)) =>
       /\ db'.table_num = 0
       /\ FreeList(db') = <<>>
       /\ db'.pages = 1

\* C11: after create then open, table_num = 0, the free-page list is empty
\* and pages = 1; pages always equals the file length divided by the page
\* size, and dropping the Db and opening the file again after any allocate_page
\* and deallocate_page calls yields the same pages and the same free list.
C11_ReopenKeepsPager == [][C11_Step]_vars

\* a file of several pages with a free page was opened again
C11_Witness ==
  /\ op = "open"
  /\ ret = "Ok"
  /\ db.pages > 2
  /\ db.first_free # None32
  /\ live # {}

\* ---------------------------------------------------------- the slot runs
\* One table at a time, of two, one or no slots per data page; live holds
\* <<table-meta page, data page>> for every data page that allocate_data_slot
\* took from the pager for a table that is still live.
MaxSlotPages == 5
MaxSlotRows == 3
MaxSlotSteps == 6

SlotStmts ==
  { Stmt("t1", <<ColA>>, <<>>),
    Stmt("t1", <<ColA, Col("b", CharTy(8), FALSE)>>, <<>>),
    Stmt("t1", <<Col("a", Ty("Bool"), FALSE), Col("b", VarCharTy(6), FALSE)>>, <<>>) }

InitSlot == Fresh(MaxSlotPages)

SlotTick == steps < MaxSlotSteps /\ steps' = steps + 1

SlotCreateTable ==
  \E c \in SlotStmts :
    /\ Do("create_table", c, create_table(Begin(db), c))
    /\ SlotTick
    /\ UNCHANGED <<live, freed, refs, rows>>

SlotDropTable ==
  \E name \in Names :
    LET res == drop_table(Begin(db), name)
        meta == db.tables[get_ti(db, name).idx].meta
    IN /\ Do("drop_table", name, res)
       /\ SlotTick
       /\ rows' = IF res.r = "Ok" THEN {x \in rows : x.meta # meta} ELSE rows
       /\ live' = IF res.r = "Ok" THEN {x \in live : x[1] # meta} ELSE live
       /\ UNCHANGED <<freed, refs>>

SlotAllocateDataSlot ==
  \E i \in 0 .. (db.table_num - 1), junk \in JunkSlots :
    LET meta == db.tables[i].meta
        res == allocate_data_slot(Begin(db), meta, junk)
    IN /\ Cardinality(rows) < MaxSlotRows
       /\ Do("allocate_data_slot", [meta |-> meta, rid |-> res.rid],
             [d |-> res.d, r |-> "Ok"])
       /\ SlotTick
       /\ rows' = rows \cup {[meta |-> meta, rid |-> res.rid]}
       /\ live' = IF db.mem[meta].first_free = None32
                  THEN live \cup {<<meta, allocate_page(db).id>>}
                  ELSE live
       /\ UNCHANGED <<freed, refs>>

SlotDeallocateDataSlot ==
  \E x \in rows :
    /\ Do("deallocate_data_slot", x,
          [d |-> deallocate_data_slot(Begin(db), x.meta, x.rid), r |-> "Ok"])
    /\ SlotTick
    /\ rows' = rows \ {x}
    /\ UNCHANGED <<live, freed, refs>>

NextSlot ==
  \/ SlotCreateTable
  \/ SlotDropTable
  \/ SlotAllocateDataSlot
  \/ SlotDeallocateDataSlot

SpecSlot == InitSlot /\ [][NextSlot]_vars

\* the table-meta pages of the live tables
LiveMetas(d) == {d.tables[i].meta : i \in 0 .. (d.table_num - 1)}

\* the data pages taken from the pager for the table of page meta
DataPagesOf(meta) == {x[2] : x \in {y \in live : y[1] = meta}}

\* the has-free chain: next_free links from `from`, at most n pages
RECURSIVE HasFreeFrom(_, _, _)
HasFreeFrom(d, from, n) ==
  IF from = None32 \/ n = 0 \/ from \notin DOMAIN d.mem THEN <<>>
  ELSE <<from>> \o HasFreeFrom(d, d.mem[from].next_free, n - 1)

HasFreeChain(d, meta) == HasFreeFrom(d, d.mem[meta].first_free, d.pages)

\* C13: every data page on the has-free chain from tp.first_free has
\* count < cap, every data page of the table not on the chain has
\* count == cap, and no page is on the chain twice; so a data page is taken
\* from the pager only when every data page of the table is full.
C13_HasFreeChain ==
  \A meta \in LiveMetas(db) :
    LET chain == HasFreeChain(db, meta)
        cap == db.mem[meta].cap
    IN /\ \A k \in 1 .. Len(chain) : db.mem[chain[k]].count < cap
       /\ \A pg \in DataPagesOf(meta) \ Range(chain) : db.mem[pg].count = cap
       /\ \A pg \in Range(chain) : Count(chain, pg) = 1
       /\ Range(chain) \subseteq DataPagesOf(meta)

C14_Step ==
  /\ \A x \in live' : db'.mem[x[2]].count = Cardinality(db'.mem[x[2]].used)
  /\ op' = "allocate_data_slot" =>
       LET meta == arg'.meta
           rid == arg'.rid
           tp == db.mem[meta]
           fresh == tp.first_free = None32
           head == IF fresh THEN allocate_page(db).id ELSE tp.first_free
           before == IF fresh THEN {} ELSE db.mem[head].used
       IN /\ arg' \notin rows
          /\ rid.page = head
          /\ rid.slot \notin before
          /\ \A b \in 0 .. (rid.slot - 1) : b \in before
          /\ rid.slot < tp.cap
          /\ rid.slot \in db'.mem[head].used

\* C14: allocate_data_slot returns a Rid that was not live before the call:
\* its slot is the lowest clear bit of the head page of the has-free chain
\* and is smaller than cap, the bit is set afterwards, and on every data page
\* count equals the number of set bits of used[].
C14_FreshLowestSlot == [][C14_Step]_vars

\* the pages met by following next from `cur` until the table-meta page
RECURSIVE RingFrom(_, _, _, _)
RingFrom(d, cur, meta, n) ==
  IF cur = meta \/ n = 0 \/ cur \notin DOMAIN d.mem THEN <<>>
  ELSE <<cur>> \o RingFrom(d, d.mem[cur].next, meta, n - 1)

Ring(d, meta) == RingFrom(d, d.mem[meta].next, meta, d.pages)

\* the walk ends on a link to the table-meta page
RingCloses(d, meta) ==
  LET ring == Ring(d, meta)
  IN IF ring = <<>> THEN d.mem[meta].next = meta
     ELSE d.mem[ring[Len(ring)]].next = meta

\* the Rids whose bit is set on the pages of the ring
RingRids(d, meta) ==
  UNION { {[meta |-> meta, rid |-> [page |-> pg, slot |-> b]] : b \in d.mem[pg].used} :
          pg \in Range(Ring(d, meta)) }

\* C15: following next links from the table-meta page visits every data page
\* allocated for the table exactly once and returns to the table-meta page,
\* and the set bits on the visited pages are exactly the Rids allocated and
\* not yet deallocated.
C15_RingHoldsDataPages ==
  \A meta \in LiveMetas(db) :
    LET ring == Ring(db, meta)
    IN /\ Range(ring) = DataPagesOf(meta)
       /\ \A pg \in Range(ring) : Count(ring, pg) = 1
       /\ RingCloses(db, meta)
       /\ RingRids(db, meta) = {x \in rows : x.meta = meta}

\* ------------------------------------------------- the table directory
\* the names of the live prefix tables[0 .. table_num)
LiveNames(d) == {d.tables[i].name : i \in 0 .. (d.table_num - 1)}

DirectoryOk(d) ==
  /\ d.table_num <= MAX_TABLE
  /\ \A i, j \in 0 .. (d.table_num - 1) :
       d.tables[i].name = d.tables[j].name => i = j

C16_DupStep ==
  (op' = "create_table" /\ LiveName(db, arg'.name)) => ret' = "DupTable"

C16_DupOrFullStep ==
  (op' = "create_table" /\ LiveName(db, arg'.name)) =>
    ret' = IF db.table_num = MAX_TABLE THEN "TableExhausted" ELSE "DupTable"

\* C16: in every state reached by create_table and drop_table calls,
\* table_num <= MAX_TABLE and the names of the live tables are pairwise
\* distinct; create_table of a name that is already live fails with DupTable.
C16_LiveNamesDistinct == []DirectoryOk(db) /\ [][C16_DupStep]_vars

\* C16 with the full directory told apart: table_num <= MAX_TABLE and the
\* live names are pairwise distinct; create_table of a live name fails with
\* DupTable while table_num < MAX_TABLE and with TableExhausted when
\* table_num = MAX_TABLE.
C16_DupUnlessFull == []DirectoryOk(db) /\ [][C16_DupOrFullStep]_vars

\* a live name was refused as a duplicate in a directory of several tables
C16_Witness ==
  /\ op = "create_table"
  /\ ret = "DupTable"
  /\ arg.name \in LiveNames(db)
  /\ db.table_num >= 2

C17_Step ==
  (op' = "drop_table" /\ ret' = "Ok") =>
    /\ db'.table_num = db.table_num - 1
    /\ ~LiveName(db', arg')
    /\ LiveNames(db') = LiveNames(db) \ {arg'}
    /\ \A i \in 0 .. (db.table_num - 1) :
         db.tables[i].name # arg' =>
           LET ti == get_ti(db', db.tables[i].name)
           IN /\ ti.err = "Ok"
              /\ db'.tables[ti.idx].meta = db.tables[i].meta

\* C17: a successful drop_table(name) removes exactly the named table from
\* the directory: table_num decreases by one and every other live table is
\* still found by get_ti under its own name with the same table-meta page
\* id as before, whichever position the dropped table had.
C17_DropRemovesOnlyNamed == [][C17_Step]_vars

\* a drop that left several live tables in a directory that is no longer in
\* the order of the table-meta pages: a descriptor has been moved from the
\* last position into the place of a dropped one
C17_Witness ==
  /\ op = "drop_table"
  /\ ret = "Ok"
  /\ db.table_num >= 2
  /\ db.tables[0].meta > db.tables[1].meta
  /\ Len(FreeList(db)) = 1

\* ---------------------------------------------------- the index (B+-tree)
\* The entries of an index page are <<key, rid>> pairs in keys[], ordered by
\* key and then by Rid; an internal page has the child page of entry i in
\* ch[i], a leaf has no ch[].

\* the (key, rid) order
KeyLe(a, b) == a[1] < b[1] \/ (a[1] = b[1] /\ a[2] <= b[2])

\* the number of entries <= x: the position of the largest entry <= x in a
\* sorted array, 0 when there is none
UpperPos(keys, x) == Cardinality({i \in 1 .. Len(keys) : KeyLe(keys[i], x)})

\* the child position the descent takes: the largest separator <= x, and
\* the first child when x is below every separator
ChildPos(keys, x) == IF UpperPos(keys, x) = 0 THEN 1 ELSE UpperPos(keys, x)

\* s with e put after position i, and s without position i
InsertAt(s, i, e) == SubSeq(s, 1, i) \o <<e>> \o SubSeq(s, i + 1, Len(s))
RemoveAt(s, i) == SubSeq(s, 1, i - 1) \o SubSeq(s, i + 1, Len(s))

\* the forward ring link of a leaf; a root leaf that never split has none
\* and is a ring of its own
NextLeaf(d, page) == IF d.mem[page].next = None32 THEN page ELSE d.mem[page].next

\* keys[] and ch[] of a page rewritten, count with them
SetEntries(d, page, keys, ch) ==
  [d EXCEPT !.mem[page].keys = keys, !.mem[page].ch = ch,
            !.mem[page].icount = Len(keys)]

\* split at the median: the right half moves into a newly allocated sibling,
\* which a leaf links into the ring after itself: [d, id: the sibling]
SplitNode(d, page) ==
  LET ip == d.mem[page]
      n == Len(ip.keys)
      m == n \div 2
      a == allocate_page(d)
      sib == a.id
      nxt == NextLeaf(d, page)
      d1 == [a.d EXCEPT !.mem[sib] =
               [ip_init(a.d.mem[sib], ip.leaf, ip.key_size) EXCEPT !.cap = ip.cap]]
      d2 == SetEntries(d1, sib, SubSeq(ip.keys, m + 1, n),
                       IF ip.leaf THEN <<>> ELSE SubSeq(ip.ch, m + 1, n))
      d3 == SetEntries(d2, page, SubSeq(ip.keys, 1, m),
                       IF ip.leaf THEN <<>> ELSE SubSeq(ip.ch, 1, m))
      d4 == IF ip.leaf
            THEN [d3 EXCEPT !.mem[sib].prev = page, !.mem[sib].next = nxt,
                            !.mem[page].next = sib, !.mem[nxt].prev = sib]
            ELSE d3
  IN [d |-> d4, id |-> sib]

\* a node that overflows (entries > cap) splits and hands the separator, the
\* sibling's first key, to its parent: [d, split: <<>> or <<[key, page]>>]
Overflow(d, page) ==
  IF Len(d.mem[page].keys) > d.mem[page].cap
  THEN LET s == SplitNode(d, page)
       IN [d |-> s.d, split |-> <<[key |-> s.d.mem[s.id].keys[1], page |-> s.id]>>]
  ELSE [d |-> d, split |-> <<>>]

\* insert below `page`: descend, insert in sorted position, split on the way up
RECURSIVE insert_at(_, _, _)
insert_at(d, page, x) ==
  LET ip == d.mem[page]
  IN IF ip.leaf
     THEN Overflow(SetEntries(d, page, InsertAt(ip.keys, UpperPos(ip.keys, x), x), <<>>),
                   page)
     ELSE
       LET pos == ChildPos(ip.keys, x)
           d0 == IF UpperPos(ip.keys, x) = 0
                 THEN [d EXCEPT !.mem[page].keys[1] = x] ELSE d
           r == insert_at(d0, ip.ch[pos], x)
       IN IF r.split = <<>> THEN r
          ELSE LET s == r.split[1]
                   np == r.d.mem[page]
               IN Overflow(SetEntries(r.d, page, InsertAt(np.keys, pos, s.key),
                                      InsertAt(np.ch, pos, s.page)), page)

\* insert(key, rid) into the index of column idx of the table-meta page
\* meta; a root that splits gets a new internal root above it
index_insert(d, meta, idx, x) ==
  LET root == d.mem[meta].cols[idx].index
      r == insert_at(d, root, x)
  IN IF r.split = <<>> THEN r.d
     ELSE LET s == r.split[1]
              a == allocate_page(r.d)
              old == a.d.mem[root]
              d1 == [a.d EXCEPT !.mem[a.id] =
                       [ip_init(a.d.mem[a.id], FALSE, old.key_size) EXCEPT !.cap = old.cap]]
              d2 == SetEntries(d1, a.id, <<old.keys[1], s.key>>, <<root, s.page>>)
          IN [d2 EXCEPT !.mem[meta].cols[idx].index = a.id]

\* the child at position pos takes the last entry of its left sibling
BorrowLeft(d, page, pos) ==
  LET ip == d.mem[page]
      c == ip.ch[pos]
      l == ip.ch[pos - 1]
      lp == d.mem[l]
      cp == d.mem[c]
      n == Len(lp.keys)
      d1 == SetEntries(d, c, <<lp.keys[n]>> \o cp.keys,
                       IF cp.leaf THEN <<>> ELSE <<lp.ch[n]>> \o cp.ch)
      d2 == SetEntries(d1, l, SubSeq(lp.keys, 1, n - 1),
                       IF lp.leaf THEN <<>> ELSE SubSeq(lp.ch, 1, n - 1))
  IN [d2 EXCEPT !.mem[page].keys[pos] = lp.keys[n]]

\* the child at position pos takes the first entry of its right sibling
BorrowRight(d, page, pos) ==
  LET ip == d.mem[page]
      c == ip.ch[pos]
      r == ip.ch[pos + 1]
      rp == d.mem[r]
      cp == d.mem[c]
      d1 == SetEntries(d, c, Append(cp.keys, rp.keys[1]),
                       IF cp.leaf THEN <<>> ELSE Append(cp.ch, rp.ch[1]))
      d2 == SetEntries(d1, r, Tail(rp.keys), IF rp.leaf THEN <<>> ELSE Tail(rp.ch))
  IN [d2 EXCEPT !.mem[page].keys[pos + 1] = rp.keys[2]]

\* the child at position pos + 1 is merged into the child at pos, taken out
\* of the leaf ring and freed; its separator leaves the parent
Merge(d, page, pos) ==
  LET ip == d.mem[page]
      l == ip.ch[pos]
      r == ip.ch[pos + 1]
      lp == d.mem[l]
      rp == d.mem[r]
      d1 == SetEntries(d, l, lp.keys \o rp.keys,
                       IF lp.leaf THEN <<>> ELSE lp.ch \o rp.ch)
      d2 == IF lp.leaf
            THEN [d1 EXCEPT !.mem[l].next = rp.next, !.mem[rp.next].prev = l]
            ELSE d1
      d3 == SetEntries(d2, page, RemoveAt(ip.keys, pos + 1), RemoveAt(ip.ch, pos + 1))
  IN deallocate_page(d3, r)

\* after a delete below the child at pos: an underflow (entries < cap / 2)
\* borrows from a sibling that can spare an entry, and merges otherwise
Rebalance(d, page, pos) ==
  LET ip == d.mem[page]
      half == d.mem[ip.ch[pos]].cap \div 2
      Spare(q) == Len(d.mem[ip.ch[q]].keys) > half
  IN IF Len(d.mem[ip.ch[pos]].keys) >= half THEN d
     ELSE IF pos > 1 /\ Spare(pos - 1) THEN BorrowLeft(d, page, pos)
     ELSE IF pos < Len(ip.ch) /\ Spare(pos + 1) THEN BorrowRight(d, page, pos)
     ELSE IF pos > 1 THEN Merge(d, page, pos - 1)
     ELSE IF pos < Len(ip.ch) THEN Merge(d, page, pos)
     ELSE d

\* delete below `page`: descend, remove the matching entry, rebalance on the
\* way up
RECURSIVE delete_at(_, _, _)
delete_at(d, page, x) ==
  LET ip == d.mem[page]
  IN IF ip.leaf
     THEN LET hit == {i \in 1 .. Len(ip.keys) : ip.keys[i] = x}
          IN IF hit = {} THEN d
             ELSE SetEntries(d, page, RemoveAt(ip.keys, Min(hit)), <<>>)
     ELSE LET pos == ChildPos(ip.keys, x)
          IN Rebalance(delete_at(d, ip.ch[pos], x), page, pos)

\* delete(key, rid); an internal root left with a single child is freed and
\* the child becomes the root
index_delete(d, meta, idx, x) ==
  LET root == d.mem[meta].cols[idx].index
      d1 == delete_at(d, root, x)
      rp == d1.mem[root]
  IN IF ~rp.leaf /\ Len(rp.keys) = 1
     THEN [deallocate_page(d1, root) EXCEPT !.mem[meta].cols[idx].index = rp.ch[1]]
     ELSE d1

\* the leaf the descent for x ends in
RECURSIVE LeafFor(_, _, _)
LeafFor(d, page, x) ==
  IF d.mem[page].leaf THEN page
  ELSE LeafFor(d, d.mem[page].ch[ChildPos(d.mem[page].keys, x)], x)

\* the entries with that key on the leaves from `leaf` on, through the
\* forward ring link, up to the first entry past the key or to the leaf the
\* walk began in
RECURSIVE WalkCount(_, _, _, _, _)
WalkCount(d, leaf, start, key, fuel) ==
  LET keys == d.mem[leaf].keys
      hits == Cardinality({i \in 1 .. Len(keys) : keys[i][1] = key})
      past == \E i \in 1 .. Len(keys) : keys[i][1] > key
      nxt == NextLeaf(d, leaf)
  IN IF past \/ nxt = start \/ fuel = 0 THEN hits
     ELSE hits + WalkCount(d, nxt, start, key, fuel - 1)

\* the lookup that stays on the leaf of the lower bound
index_count_FirstLeaf(d, meta, idx, key) ==
  LET root == d.mem[meta].cols[idx].index
      leaf == LeafFor(d, root, <<key, 0>>)
  IN WalkCount(d, leaf, leaf, key, 0)

\* the number of rows an equality lookup for key returns: the lower bound is
\* (key, the smallest Rid)
index_count(d, meta, idx, key) ==
  LET root == d.mem[meta].cols[idx].index
      leaf == LeafFor(d, root, <<key, 0>>)
  IN WalkCount(d, leaf, leaf, key, d.pages)

\* ------------------------------------------------------- the index runs
\* The set-up of the index test: a table with one Int column, an index on
\* it, and the root page's cap overridden.  Then rows are inserted and
\* deleted by key, and keys are looked up; rows is the reference: the
\* <<key, rid>> pairs inserted and not deleted.
MaxIndexRows == 11
MaxIndexPages == 12
\* a run makes at most MaxIndexDeletes DELETE statements
MaxIndexDeletes == 2

\* the cap the test forces
TestCap == 8
\* the caps of the runs: the test's, and a smaller one for trees of three
\* levels
ForcedCaps == {4, TestCap}

IndexKeys == {0, 1}

IndexStmt == Stmt("t1", <<Col("a", IntTy, TRUE)>>, <<>>)

IndexDb(cap) ==
  LET d1 == create_table(InitDb, IndexStmt).d
      d2 == create_index(d1, "t1", "a").d
      ci == get_ci(d2, "t1", "a")
  IN [d2 EXCEPT !.mem[d2.mem[ci.meta].cols[ci.idx].index].cap = cap]

InitIndex ==
  \E cap \in ForcedCaps :
    /\ db = Canon(Begin(IndexDb(cap)))
    /\ op = "create_index"
    /\ arg = [key |-> 0, n |-> cap]
    /\ ret = "Ok"
    /\ live = {}
    /\ freed = <<>>
    /\ refs = {}
    /\ rows = {}
    /\ maxPages = MaxIndexPages
    /\ steps = 0

\* the indexed column: [err, meta, idx]
IndexCol(d) == get_ci(d, "t1", "a")
IndexRoot(d) == d.mem[IndexCol(d).meta].cols[IndexCol(d).idx].index
HasIndex(d) == IndexCol(d).err = "Ok" /\ IndexRoot(d) # None32

\* the rows of that key, by Rid
RECURSIVE Sorted(_)
Sorted(S) == IF S = {} THEN <<>> ELSE <<Min(S)>> \o Sorted(S \ {Min(S)})

\* one index delete per row of the key
RECURSIVE DeleteRows(_, _, _, _, _)
DeleteRows(d, meta, idx, key, rids) ==
  IF rids = <<>> THEN d
  ELSE DeleteRows(index_delete(d, meta, idx, <<key, Head(rids)>>), meta, idx, key,
                  Tail(rids))

\* the Rids of the table's slots, and the lowest one that no row has: the
\* slot a new row is given
IndexRids == 1 .. MaxIndexRows
FreeRid == Min(IndexRids \ {x[2] : x \in rows})

IndexInsert ==
  \E key \in IndexKeys :
    LET ci == IndexCol(db)
        x == <<key, FreeRid>>
    IN /\ HasIndex(db)
       /\ Cardinality(rows) < MaxIndexRows
       /\ steps = 0
       /\ Do("insert", [key |-> key, n |-> FreeRid],
             [d |-> index_insert(Begin(db), ci.meta, ci.idx, x), r |-> "Ok"])
       /\ rows' = rows \cup {x}
       /\ UNCHANGED <<live, freed, refs, steps>>

\* DELETE ... WHERE a = key
IndexDelete ==
  \E key \in IndexKeys :
    LET ci == IndexCol(db)
        rids == Sorted({x[2] : x \in {y \in rows : y[1] = key}})
    IN /\ HasIndex(db)
       /\ rids # <<>>
       /\ Do("delete", [key |-> key, n |-> Len(rids)],
             [d |-> DeleteRows(Begin(db), ci.meta, ci.idx, key, rids), r |-> "Ok"])
       /\ steps < MaxIndexDeletes
       /\ steps' = steps + 1
       /\ rows' = {y \in rows : y[1] # key}
       /\ UNCHANGED <<live, freed, refs>>

\* SELECT ... WHERE a = key: n is the number of rows returned
IndexLookup ==
  \E key \in IndexKeys :
    LET ci == IndexCol(db)
    IN /\ HasIndex(db)
       /\ Do("lookup", [key |-> key, n |-> index_count(db, ci.meta, ci.idx, key)],
             [d |-> Begin(db), r |-> "Ok"])
       /\ UNCHANGED <<live, freed, refs, rows, steps>>

IndexDropIndex ==
  /\ Do("drop_index", [key |-> 0, n |-> 0], drop_index(Begin(db), "t1", "a"))
  /\ UNCHANGED <<live, freed, refs, rows, steps>>

NextIndex == IndexInsert \/ IndexDelete \/ IndexLookup \/ IndexDropIndex

SpecIndex == InitIndex /\ [][NextIndex]_vars

\* the multiplicity of the key in the reference
Multiplicity(key) == Cardinality({x \in rows : x[1] = key})

\* C12: for an index on an Int column with the page cap forced, after rows
\* were inserted and the rows of some keys deleted, an equality lookup for
\* any probe key returns exactly as many rows as the key has in the
\* reference multiset to which the same insertions and deletions were
\* applied.
C12_LookupCountsReference ==
  /\ HasIndex(db) =>
       \A key \in IndexKeys :
         index_count(db, IndexCol(db).meta, IndexCol(db).idx, key) = Multiplicity(key)
  /\ op = "lookup" => arg.n = Multiplicity(arg.key)

\* a lookup with the test's cap after a DELETE statement that merged the
\* pages of a tree that had split, of a key that several rows still have
C12_Witness ==
  /\ op = "lookup"
  /\ arg.n >= 2
  /\ steps >= 1
  /\ HasIndex(db)
  /\ db.mem[IndexRoot(db)].cap = TestCap
  /\ db.first_free # None32

\* the pages of the tree below `page` as the database d has them, children
\* before their parent
RECURSIVE PostOrder(_, _, _)
RECURSIVE PostOrderOf(_, _, _)
PostOrderOf(d, chs, fuel) ==
  IF chs = <<>> THEN <<>>
  ELSE PostOrder(d, Head(chs), fuel) \o PostOrderOf(d, Tail(chs), fuel)

PostOrder(d, page, fuel) ==
  IF fuel = 0 \/ page \notin DOMAIN d.mem THEN <<>>
  ELSE IF d.mem[page].leaf THEN <<page>>
  ELSE Append(PostOrderOf(d, d.mem[page].ch, fuel - 1), page)

Reverse(s) == [i \in 1 .. Len(s) |-> s[Len(s) + 1 - i]]

C18_Step ==
  (op' = "drop_index" /\ ret' = "Ok") =>
    LET ci == IndexCol(db)
        tree == PostOrder(db, IndexRoot(db), db.pages)
    IN /\ db'.pushed = tree
       /\ \A pg \in Range(tree) : Count(db'.pushed, pg) = 1
       /\ \A i, j \in 1 .. Len(db'.pushed) :
            (~db.mem[db'.pushed[j]].leaf /\ db'.pushed[i] \in Range(db.mem[db'.pushed[j]].ch))
              => i < j
       /\ FreeList(db') = Reverse(tree) \o FreeList(db)
       /\ db'.mem[ci.meta].cols[ci.idx].index = None32

\* C18: a successful drop_index deallocates every page of the index tree
\* reachable from the root through internal children exactly once, children
\* before their parent and no page twice, and then sets the column's index
\* to none; the pages freed are those the tree had before the call, so that
\* deallocating a child changes no child id that is still to be read.
C18_DropIndexFreesTree == [][C18_Step]_vars

\* a drop_index that freed a tree of three levels: more pages than a root
\* with its leaves has
C18_Witness ==
  /\ op = "drop_index"
  /\ ret = "Ok"
  /\ Len(db.pushed) >= 6
  /\ ~HasIndex(db)
  /\ rows # {}

\* ------------------------------------------------- the free-page list
\* the pages in use: the table-meta pages of the live tables, their data
\* pages (those that hold a live Rid and those of the has-free chain) and the
\* root pages of the live columns' indexes
InUse(d) ==
  LiveMetas(d)
    \cup UNION {RowPages(meta) \cup Range(HasFreeChain(d, meta)) : meta \in LiveMetas(d)}
    \cup {d.mem[x[1]].cols[x[2]].index : x \in {y \in LiveCols(d) : d.mem[y[1]].cols[y[2]].index # None32}}

\* the walk from first_free ends on "none" before it has made `pages` steps
FreeListEnds(d) ==
  LET fl == FreeList(d)
  IN /\ Len(fl) < d.pages
     /\ IF fl = <<>> THEN d.first_free = None32
        ELSE d.mem[fl[Len(fl)]].prev = None32

\* C19: in every state reached through create_table, drop_table,
\* create_index, drop_index, allocate_data_slot and deallocate_data_slot the
\* free-page list is finite and acyclic, holds no page twice, never page 0
\* and no page that is in use (a live table-meta page, a data page of a live
\* table, a page of a live index), so that allocate_page hands out no page
\* that is in use.
C19_FreeListSafe ==
  LET fl == FreeList(db)
  IN /\ FreeListEnds(db)
     /\ \A pg \in Range(fl) : Count(fl, pg) = 1
     /\ 0 \notin Range(fl)
     /\ Range(fl) \cap InUse(db) = {}
     /\ allocate_page(db).id \notin InUse(db)

\* a free-page list of a database with a live table that has a live row:
\* drop_index gave the index page back
C19_Witness ==
  /\ op = "drop_index"
  /\ ret = "Ok"
  /\ FreeList(db) # <<>>
  /\ rows # {}
  /\ db.table_num >= 1

====
